---- MODULE Spec2Model ----
(***************************************************************************)
(* A model of bluesky-org-search.py: the rate_limit decorator, the         *)
(* paginated search_organization loop, the text matcher (exact, "of"-less, *)
(* all-words and fuzzy tests) and the caller loop of search_from_csv.      *)
(*                                                                         *)
(* Five specifications share the variables:                                *)
(*   SpecRL    - rate_limit(calls, period) around an arbitrary function,   *)
(*               called at arbitrary non-decreasing times;                 *)
(*   Spec      - the program: search_from_csv calling the rate-limited     *)
(*               search_organization against a nondeterministic remote;    *)
(*   FairSpec  - Spec with weak fairness of the program's own steps        *)
(*               (single-threaded blocking code always takes its next      *)
(*               step);                                                    *)
(*   SpecMatch - the pure matching functions applied to inputs drawn from  *)
(*               a bounded set of strings;                                 *)
(*   SpecLev   - levenshtein_distance applied to every pair of short       *)
(*               strings over a two-letter alphabet.                       *)
(*                                                                         *)
(* A Python string is a sequence of one-character strings.  Time is in     *)
(* whole seconds.                                                          *)
(***************************************************************************)
EXTENDS Integers, Sequences, FiniteSets, TLC

VARIABLES
    now,               \* the wall clock, time.time()
    calls,             \* rate_limit's closure: parameter calls
    period,            \* rate_limit's closure: parameter period
    calls_made,        \* rate_limit's closure: the timestamp log
    invoked,           \* history: the clock at each start of the wrapped function
    pc,                \* position of the program
    organizations,     \* search_from_csv: the rows read from the input file
    i,                 \* search_from_csv: index of the current organization
    max_pages,         \* search_organization: the page bound
    cursor,            \* search_organization: cursor
    page_count,        \* search_organization: page_count
    matched_accounts,  \* search_organization: matched_accounts
    page,              \* search_organization: results (the page being evaluated)
    k,                 \* search_organization: position of the for loop in results.actors
    returned,          \* the value search_organization returned to its caller
    raised,            \* the exception search_organization raised to its caller
    admissions,        \* history: number of admissions by the rate limiter
    requests,          \* history: number of requests sent to the remote
    pages_evaluated,   \* history: pages evaluated by the running search
    accepted,          \* history: every match the running search accepted
    throttled,         \* history: rate-limit errors the remote raised in this search
    remote_errors,     \* history: other errors the remote raised in this search
    attempted,         \* history: the rows search_from_csv has started a search for
    failed,            \* history: the rows whose search met an error of the remote
    last_throttle,     \* history: the rate-limit error the running search is retrying after
    seen,              \* history: the actors the running search has met, in order
    github_env,        \* search_from_csv: whether GITHUB_ENV names a file
    output_file,       \* the rows of the output file of the current organization, after the header
    m_org,             \* SpecMatch: the org_name argument
    m_text,            \* SpecMatch: the candidate text
    m_op,              \* SpecMatch: the function that was applied
    m_res              \* SpecMatch: its outcome

vars == <<now, calls, period, calls_made, invoked, pc, organizations, i,
          max_pages, cursor, page_count, matched_accounts, page, k, returned,
          raised, admissions, requests, pages_evaluated, accepted, throttled,
          remote_errors, m_org, m_text, m_op, m_res,
          attempted,
          failed,
          last_throttle,
          seen,
          github_env,
          output_file>>

rl_vars == <<calls, period, calls_made, invoked>>

search_vars == <<pc, organizations, i, max_pages, cursor, page_count,
                 matched_accounts, page, k, returned, raised, admissions,
                 requests, pages_evaluated, accepted, throttled, remote_errors,
                 attempted,
                 failed,
                 last_throttle,
                 seen,
                 github_env,
                 output_file>>

match_vars == <<m_org, m_text, m_op, m_res>>

-----------------------------------------------------------------------------
(* Strings                                                                 *)

UpperCase == <<"A","B","C","D","E","F","G","H","I","J","K","L","M",
               "N","O","P","Q","R","S","T","U","V","W","X","Y","Z">>

LowerCase == <<"a","b","c","d","e","f","g","h","i","j","k","l","m",
               "n","o","p","q","r","s","t","u","v","w","x","y","z">>

Digits == {"0","1","2","3","4","5","6","7","8","9"}

\* str.split() with no argument splits on runs of these
Whitespace == {" ", "\t", "\n"}

Range(s) == {s[n] : n \in 1..Len(s)}

\* the regular expression class \w
IsWordChar(c) == c \in Range(UpperCase) \cup Range(LowerCase) \cup Digits \cup {"_"}

LowerChar(c) ==
    IF c \in Range(UpperCase)
    THEN LowerCase[CHOOSE n \in 1..Len(UpperCase) : UpperCase[n] = c]
    ELSE c

\* str.lower()
Lower(s) == [n \in 1..Len(s) |-> LowerChar(s[n])]

\* the operator  a in b  of two strings
Contains(b, a) ==
    \E n \in 0..(Len(b) - Len(a)) : SubSeq(b, n + 1, n + Len(a)) = a

\* the maximal runs of characters of a class: of \w when isword, which is
\* re.findall(r'\b\w+\b', s), and of non-whitespace otherwise, which is s.split()
RECURSIVE Runs(_, _, _, _)
Runs(s, n, cur, isword) ==
    IF n > Len(s)
    THEN IF cur = <<>> THEN <<>> ELSE <<cur>>
    ELSE IF (isword /\ IsWordChar(s[n])) \/ (~isword /\ s[n] \notin Whitespace)
         THEN Runs(s, n + 1, Append(cur, s[n]), isword)
         ELSE IF cur = <<>>
              THEN Runs(s, n + 1, <<>>, isword)
              ELSE <<cur>> \o Runs(s, n + 1, <<>>, isword)

FindWords(s) == Runs(s, 1, <<>>, TRUE)

Split(s) == Runs(s, 1, <<>>, FALSE)

\* ' '.join(words)
RECURSIVE Join(_)
Join(words) ==
    IF words = <<>> THEN <<>>
    ELSE IF Len(words) = 1 THEN words[1]
    ELSE words[1] \o <<" ">> \o Join(Tail(words))

RECURSIVE Filter(_, _)
Filter(words, drop) ==
    IF words = <<>> THEN <<>>
    ELSE IF words[1] = drop THEN Filter(Tail(words), drop)
    ELSE <<words[1]>> \o Filter(Tail(words), drop)

\* a slip: the substitution is left out of the minimum
Min3Slip(a, b, c) == IF a <= b THEN a ELSE b

\* min(a, b, c)
Min3(a, b, c) ==
    IF a <= b /\ a <= c THEN a ELSE IF b <= c THEN b ELSE c

-----------------------------------------------------------------------------
(* levenshtein_distance: the two-row dynamic program of the source         *)

\* the inner loop: current_row after the characters j.. of s2
RECURSIVE FillRow(_, _, _, _, _)
FillRow(current_row, previous_row, c1, s2, j) ==
    IF j > Len(s2) THEN current_row
    ELSE LET insertions    == previous_row[j + 1] + 1
             deletions     == current_row[j] + 1
             substitutions == previous_row[j] + (IF c1 # s2[j] THEN 1 ELSE 0)
             cell          == Min3(insertions, deletions, substitutions)
         IN  FillRow(current_row \o <<cell>>, previous_row, c1, s2, j + 1)

\* the outer loop: previous_row after the characters n.. of s1.  A row has
\* len(s2) + 1 entries, so the test below is always true: it makes TLC compute
\* the row before the next iteration instead of nesting the unevaluated rows.
RECURSIVE LevRows(_, _, _, _)
LevRows(previous_row, s1, s2, n) ==
    IF n > Len(s1) THEN previous_row
    ELSE LET current_row == FillRow(<<n>>, previous_row, s1[n], s2, 1)
         IN  IF Len(current_row) = Len(previous_row)
             THEN LevRows(current_row, s1, s2, n + 1)
             ELSE <<>>

LevOrdered(s1, s2) ==
    IF Len(s2) = 0 THEN Len(s1)
    ELSE LET last == LevRows([n \in 1..(Len(s2) + 1) |-> n - 1], s1, s2, 1)
         IN  last[Len(last)]

levenshtein_distance(s1, s2) ==
    IF Len(s1) < Len(s2) THEN LevOrdered(s2, s1) ELSE LevOrdered(s1, s2)

-----------------------------------------------------------------------------
(* fuzzy_match and the match condition of search_organization              *)

\* the outcome of a call: the exception it raised ("none" if it returned) and
\* the value it returned
Value(v) == [exc |-> "none", val |-> v]

Throw(e) == [exc |-> e, val |-> FALSE]

\* any(levenshtein_distance(org_word, search_word) <= 2 for ...)
WordMatched(org_word, search_words) ==
    \E n \in 1..Len(search_words) :
        levenshtein_distance(org_word, search_words[n]) <= 2

\* the value of matched_words after the loop
MatchedWords(org_words, search_words) ==
    Cardinality({n \in 1..Len(org_words) : WordMatched(org_words[n], search_words)})

fuzzy_match(org_name, search_text) ==
    LET org_words     == Split(Lower(org_name))
        search_words  == Split(Lower(search_text))
        matched_words == MatchedWords(org_words, search_words)
    IN  IF Len(org_words) = 0
        THEN Throw("ZeroDivisionError")
        \* matched_words / len(org_words) >= 0.7
        ELSE Value(10 * matched_words >= 7 * Len(org_words))

\* f"{actor.display_name} {actor.description or ''}".lower(); an absent
\* description is the empty string
SearchText(display_name, description) ==
    Lower(display_name \o <<" ">> \o description)

\* org_words and org_without_of
OrgWords(org_name) == FindWords(Lower(org_name))

OrgWithoutOf(org_name) == Join(Filter(OrgWords(org_name), <<"o","f">>))

ExactTest(org_name, search_text) == Contains(search_text, Lower(org_name))

\* a slip: an empty org_without_of matches nothing
WithoutOfTestNonEmpty(org_name, search_text) ==
    /\ OrgWithoutOf(org_name) # <<>>
    /\ Contains(search_text, OrgWithoutOf(org_name))

WithoutOfTest(org_name, search_text) == Contains(search_text, OrgWithoutOf(org_name))

AllWordsTest(org_name, search_text) ==
    \A n \in 1..Len(OrgWords(org_name)) : Contains(search_text, OrgWords(org_name)[n])

\* the  or  chain calls fuzzy_match only when the three tests before it are
\* false
FuzzyReached(org_name, search_text) ==
    ~ \/ ExactTest(org_name, search_text)
      \/ WithoutOfTest(org_name, search_text)
      \/ AllWordsTest(org_name, search_text)

\* the condition of the if statement
MatchCondition(org_name, search_text) ==
    IF FuzzyReached(org_name, search_text)
    THEN fuzzy_match(org_name, search_text)
    ELSE Value(TRUE)

-----------------------------------------------------------------------------
(* SpecMatch: the pure functions applied to a bounded set of inputs        *)
StrUniversityOfOxford == <<"U","n","i","v","e","r","s","i","t","y"," ","o","f"," ","O","x","f","o","r","d">>
StrAcmeCorp == <<"A","c","m","e"," ","C","o","r","p">>
StrOxford == <<"O","x","f","o","r","d">>
StrOf == <<"o","f">>
StrArt == <<"a","r","t">>
StrEmptyName == <<>>
StrBlankName == <<" ">>
StrPunctuation == <<"!","!">>
StrOxfordUniversityPress == <<"o","x","f","o","r","d"," ","u","n","i","v","e","r","s","i","t","y"," ","p","r","e","s","s">>
StrTotallyUnrelatedText == <<"t","o","t","a","l","l","y"," ","u","n","r","e","l","a","t","e","d"," ","t","e","x","t">>
StrOxfordUniversityText == <<"O","x","f","o","r","d"," ","U","n","i","v","e","r","s","i","t","y"," ">>
StrParty == <<"p","a","r","t","y">>
StrAcmeCorpText == <<"a","c","m","e"," ","c","o","r","p">>
StrEmptyText == <<>>

\* the org_name arguments tried
MatchOrgNames ==
    {StrUniversityOfOxford, StrAcmeCorp, StrOxford, StrOf, StrArt,
     StrEmptyName, StrBlankName, StrPunctuation}

\* the candidate texts tried
MatchTexts ==
    {StrOxfordUniversityPress, StrTotallyUnrelatedText,
     StrOxfordUniversityText, StrParty, StrAcmeCorpText, StrEmptyText}


\* the state of the matcher's variables outside SpecMatch
MatchIdle ==
    /\ m_org = <<>>
    /\ m_text = <<>>
    /\ m_op = "none"
    /\ m_res = Value(FALSE)

\* the state of the program's variables outside Spec
SearchIdle ==
    /\ pc = "off"
    /\ organizations = <<>>
    /\ i = 0
    /\ max_pages = 0
    /\ cursor = "None"
    /\ page_count = 0
    /\ matched_accounts = <<>>
    /\ page = [actors |-> <<>>, cursor |-> "None"]
    /\ k = 0
    /\ returned = <<>>
    /\ raised = "none"
    /\ admissions = 0
    /\ requests = 0
    /\ pages_evaluated = 0
    /\ accepted = <<>>
    /\ throttled = 0
    /\ remote_errors = 0
    /\ attempted = <<>>
    /\ failed = {}
    /\ last_throttle =
           [kind |-> "none", at |-> 0, reset |-> 0,
            params |-> [term |-> <<>>, limit |-> 0, cursor |-> "None"]]
    /\ seen = <<>>
    /\ github_env = FALSE
    /\ output_file = <<>>

InitMatch ==
    /\ m_org \in MatchOrgNames
    /\ m_text \in MatchTexts
    /\ m_op = "none"
    /\ m_res = Value(FALSE)
    /\ now = 0
    /\ calls = 1
    /\ period = 1
    /\ calls_made = <<>>
    /\ invoked = <<>>
    /\ SearchIdle

\* a direct call fuzzy_match(org_name, search_text)
EvalFuzzy ==
    /\ m_op = "none"
    /\ m_op' = "fuzzy_match"
    /\ m_res' = fuzzy_match(m_org, m_text)
    /\ UNCHANGED <<now, rl_vars, search_vars, m_org, m_text>>

\* the match condition of search_organization applied to a candidate whose
\* display name and description give the text m_text
EvalMatch ==
    /\ m_op = "none"
    /\ m_op' = "matches"
    /\ m_res' = MatchCondition(m_org, Lower(m_text))
    /\ UNCHANGED <<now, rl_vars, search_vars, m_org, m_text>>

\* the test  all(word in search_text for word in org_words)  applied to the
\* same candidate
EvalAllWords ==
    /\ m_op = "none"
    /\ m_op' = "all_words"
    /\ m_res' = Value(AllWordsTest(m_org, Lower(m_text)))
    /\ UNCHANGED <<now, rl_vars, search_vars, m_org, m_text>>

NextMatch == EvalFuzzy \/ EvalMatch \/ EvalAllWords

SpecMatch == InitMatch /\ [][NextMatch]_vars

-----------------------------------------------------------------------------
(* SpecLev: levenshtein_distance applied to every pair of short strings    *)

\* the characters of the strings tried
LevAlphabet == {"a", "b"}

\* the length of the longest string tried
MaxLen == 3

\* the strings of at most n characters
RECURSIVE StringsUpTo(_)
StringsUpTo(n) ==
    IF n = 0 THEN {<<>>}
    ELSE LET shorter == StringsUpTo(n - 1)
         IN  shorter \cup {Append(q, c) : q \in shorter, c \in LevAlphabet}

LevStrings == StringsUpTo(MaxLen)

InitLev ==
    /\ m_org \in LevStrings
    /\ m_text \in LevStrings
    /\ m_op = "none"
    /\ m_res = Value(0)
    /\ now = 0
    /\ calls = 1
    /\ period = 1
    /\ calls_made = <<>>
    /\ invoked = <<>>
    /\ SearchIdle

\* a call levenshtein_distance(s1, s2)
EvalLev ==
    /\ m_op = "none"
    /\ m_op' = "levenshtein_distance"
    /\ m_res' = Value(levenshtein_distance(m_org, m_text))
    /\ UNCHANGED <<now, rl_vars, search_vars, m_org, m_text>>

NextLev == EvalLev

SpecLev == InitLev /\ [][NextLev]_vars

-----------------------------------------------------------------------------
(* rate_limit: the wrapper around the decorated function                   *)

\* largest value of the parameter calls tried in SpecRL
MaxCalls == 2

\* largest value of the parameter period tried in SpecRL
MaxPeriod == 3

\* the clock of SpecRL is advanced by single ticks up to this time
RLHorizon == 6

\* number of calls of the wrapper in a behaviour of SpecRL
MaxInvocations == 5

\* a slip: a timestamp exactly one period old is kept
PruneInclusive(log, current_time, per) ==
    SelectSeq(log, LAMBDA call_time : current_time - call_time <= per)

\* [call_time for call_time in calls_made if current_time - call_time < period]
Prune(log, current_time, per) ==
    SelectSeq(log, LAMBDA call_time : current_time - call_time < per)

\* the admission test  len(calls_made) >= calls
LimitReached(log, n) == Len(log) >= n

\* sleep_time = calls_made[0] + period - current_time
SleepTime(log, current_time, per) == log[1] + per - current_time

\* a slip: the wrapper does not wait
AfterSleepNoWait(clock, sleep_time) == clock

\* time.sleep(sleep_time) when sleep_time > 0: the clock after it
AfterSleep(clock, sleep_time) ==
    IF sleep_time > 0 THEN clock + sleep_time ELSE clock

\* a slip: the oldest timestamp is not evicted
EvictNothing(log) == log

\* calls_made.pop(0)
EvictOldest(log) == Tail(log)

\* calls_made.append(current_time): current_time was read on entry, before
\* any sleep
Record(log, current_time) == Append(log, current_time)

\* the wrapper up to the call of func: the log and the clock when func starts
Admit(log, current_time, n, per) ==
    LET pruned == Prune(log, current_time, per)
    IN  IF LimitReached(pruned, n)
        THEN [calls_made |-> Record(EvictOldest(pruned), current_time),
              now        |-> AfterSleep(current_time,
                                        SleepTime(pruned, current_time, per))]
        ELSE [calls_made |-> Record(pruned, current_time),
              now        |-> current_time]

InitRL ==
    /\ now = 0
    /\ calls \in 1..MaxCalls
    /\ period \in 1..MaxPeriod
    /\ calls_made = <<>>
    /\ invoked = <<>>
    /\ SearchIdle
    /\ MatchIdle

\* time passes between two calls
RLTick ==
    /\ now < RLHorizon
    /\ now' = now + 1
    /\ UNCHANGED <<rl_vars, search_vars, match_vars>>

\* one call of the wrapper: admission, then func starts
RLCall ==
    /\ Len(invoked) < MaxInvocations
    /\ LET a == Admit(calls_made, now, calls, period)
       IN  /\ calls_made' = a.calls_made
           /\ now' = a.now
           /\ invoked' = Append(invoked, a.now)
    /\ UNCHANGED <<calls, period, search_vars, match_vars>>

NextRL == RLTick \/ RLCall

SpecRL == InitRL /\ [][NextRL]_vars

-----------------------------------------------------------------------------
(* The program: search_from_csv, search_organization and the remote         *)

\* @rate_limit(calls=100, period=86400)
DecoratorCalls == 100

DecoratorPeriod == 86400

\* strftime('%Y-%m-%d') changes every 86400 seconds of the clock
SecondsPerDay == 86400

\* time.sleep(1) between two pages
PageDelay == 1

\* time.sleep(wait_time + 1)
RetryBuffer == 1

\* time.sleep(10) between two organizations
OrganizationDelay == 10

\* max_pages = 1  # Adjust as needed
SourceMaxPages == 1

\* largest page bound tried: the model tries every value from the one of the
\* source to this one
MaxPagesCfg == 2

\* the clock is advanced by single ticks up to this many seconds after the start
Horizon == 2

\* largest number of rate-limit errors the remote raises in one search
MaxThrottle == 2

\* the clock when the program starts: one second before midnight
StartClock == SecondsPerDay - 1

\* the value None of a cursor
NoCursor == "None"

\* the cursors the remote returns
Cursors == {"c1"}

StrOxfordUniversity == <<"O","x","f","o","r","d"," ","U","n","i","v","e","r","s","i","t","y">>
StrOxfordBrookes == <<"O","x","f","o","r","d"," ","B","r","o","o","k","e","s">>
StrAcme == <<"A","c","m","e">>
StrPress == <<"p","r","e","s","s">>

\* the actors the remote knows; an absent description is the empty string
ActorOxford ==
    [handle |-> "ox.example", display_name |-> StrOxfordUniversity,
     description |-> <<>>, followers_count |-> 0, following_count |-> 0,
     posts_count |-> 0]

ActorBrookes ==
    [handle |-> "brookes.example", display_name |-> StrOxfordBrookes,
     description |-> <<>>, followers_count |-> 7, following_count |-> 0,
     posts_count |-> 1]

ActorAcme ==
    [handle |-> "acme.example", display_name |-> StrAcme,
     description |-> StrPress, followers_count |-> 3, following_count |-> 1,
     posts_count |-> 2]

OrgOxford == [organization_name |-> StrOxford, type |-> "university"]

OrgAcmeCorp == [organization_name |-> StrAcmeCorp, type |-> "company"]

\* the input files tried: the rows read by csv.DictReader
InputFiles == { <<OrgOxford>>, <<OrgOxford, OrgAcmeCorp>> }

\* results.actors of the pages the remote may answer with
PageActors ==
    { <<>>, <<ActorAcme, ActorOxford>>, <<ActorOxford, ActorBrookes>> }

\* the page bounds tried with an input file: the adjusted ones with an input of
\* one row, the one of the source with a longer input
PageBounds(rows) ==
    IF Len(rows) = 1 THEN SourceMaxPages..MaxPagesCfg ELSE {SourceMaxPages}

\* the pages the remote may answer with
Pages == [actors : PageActors, cursor : Cursors \cup {NoCursor}]

\* the local variable results before the first answer
EmptyPage == [actors |-> <<>>, cursor |-> NoCursor]

\* datetime.now().strftime('%Y-%m-%d'): the day of the clock
Date(clock) == clock \div SecondsPerDay

\* search_term = org_words[0] if org_words else org_name
SearchTerm(org_name) ==
    IF OrgWords(org_name) # <<>> THEN OrgWords(org_name)[1] ELSE org_name

\* the dictionary account_info
AccountInfo(org_name, org_type, actor, clock) ==
    [search_term       |-> org_name,
     organization_type |-> org_type,
     handle            |-> actor.handle,
     display_name      |-> actor.display_name,
     description       |-> actor.description,
     follower_count    |-> actor.followers_count,
     following_count   |-> actor.following_count,
     posts_count       |-> actor.posts_count,
     search_date       |-> Date(clock)]

\* 'limit': 100
PageLimit == 100

\* params = {'term': search_term, 'limit': 100}, with the cursor when there is
\* one
Params(org_name, cur) ==
    [term |-> SearchTerm(org_name), limit |-> PageLimit, cursor |-> cur]

\* no rate-limit error is being retried
NoThrottle ==
    [kind |-> "none", at |-> 0, reset |-> 0,
     params |-> [term |-> <<>>, limit |-> 0, cursor |-> NoCursor]]

\* the rate-limit error raised at time clock in answer to the query sent, its
\* RateLimit-Reset header being reset_time
Throttle(clock, reset_time, sent) ==
    [kind |-> "RateLimitExceeded", at |-> clock, reset |-> reset_time,
     params |-> sent]

\* a slip: an account whose handle is already in the list is not added again
AppendMatchOnce(matched, account_info) ==
    IF \E n \in 1..Len(matched) : matched[n].handle = account_info.handle
    THEN matched
    ELSE Append(matched, account_info)

\* matched_accounts.append(account_info)
AppendMatch(matched, account_info) == Append(matched, account_info)

\* a slip: > for >=
PageBoundOffByOne(count, bound) == count > bound

\* if page_count >= max_pages: break
PageBoundReached(count, bound) == count >= bound

\* wait_time = max(0, reset_time - int(time.time()))
WaitTime(reset_time, clock) ==
    IF reset_time - clock > 0 THEN reset_time - clock ELSE 0

\* a slip: the one-second buffer is left out
AfterRetrySleepNoBuffer(reset_time, clock) == clock + WaitTime(reset_time, clock)

\* the handler of a rate-limit error: the clock after time.sleep(wait_time + 1),
\* and the loop continues
AfterRetrySleep(reset_time, clock) == clock + WaitTime(reset_time, clock) + RetryBuffer

\* a slip: the handler returns what was collected
OnExceptionKeepsMatches(e, matched) == [ret |-> matched, exc |-> "none"]

\* except Exception as e: ... return []  -- what search_organization hands to
\* its caller when an exception reaches the outer handler
OnException(e, matched) == [ret |-> <<>>, exc |-> "none"]

\* return matched_accounts
OnReturn(matched) == [ret |-> matched, exc |-> "none"]

\* the values of the RateLimit-Reset header tried: absent (0 by default), one
\* second in the past, and two seconds ahead of the clock
ResetHints(clock) == {0, clock - 1, clock + 2}

\* the current row of the input file
Org == organizations[i]

\* the organizations and the actors of the model
AllOrgs == UNION {Range(f) : f \in InputFiles}

AllActors == UNION {Range(p) : p \in PageActors}

\* the condition of  if (org_name.lower() in search_text or ...)  for every
\* organization and actor of the model (a constant, which TLC computes once)
ActorMatches ==
    [o \in AllOrgs, a \in AllActors |->
        MatchCondition(o.organization_name,
                       SearchText(a.display_name, a.description))]

Init ==
    /\ now = StartClock
    /\ calls = DecoratorCalls
    /\ period = DecoratorPeriod
    /\ calls_made = <<>>
    /\ invoked = <<>>
    /\ pc = "idle"
    /\ organizations \in InputFiles
    /\ i = 1
    /\ max_pages \in PageBounds(organizations)
    /\ cursor = NoCursor
    /\ page_count = 0
    /\ matched_accounts = <<>>
    /\ page = EmptyPage
    /\ k = 0
    /\ returned = <<>>
    /\ raised = "none"
    /\ admissions = 0
    /\ requests = 0
    /\ pages_evaluated = 0
    /\ accepted = <<>>
    /\ throttled = 0
    /\ remote_errors = 0
    /\ attempted = <<>>
    /\ failed = {}
    /\ last_throttle = NoThrottle
    /\ seen = <<>>
    /\ github_env \in BOOLEAN
    /\ output_file = <<>>
    /\ MatchIdle

\* the clock advances while the program runs
Tick ==
    /\ pc \notin {"off", "finished"}
    /\ now < StartClock + Horizon
    /\ now' = now + 1
    /\ UNCHANGED <<rl_vars, search_vars, match_vars>>

\* search_from_csv calls self.search_organization(org_name, org_type): the
\* wrapper admits the call, then the body runs up to the while loop
CallSearch ==
    /\ pc = "idle"
    /\ LET a == Admit(calls_made, now, calls, period)
       IN  /\ calls_made' = a.calls_made
           /\ now' = a.now
           /\ invoked' = Append(invoked, a.now)
    /\ admissions' = admissions + 1
    /\ last_throttle' = NoThrottle
    /\ attempted' = Append(attempted, i)
    /\ matched_accounts' = <<>>
    /\ cursor' = NoCursor
    /\ page_count' = 0
    /\ pc' = "query"
    /\ UNCHANGED <<calls, period, organizations, i, max_pages, page, k,
                   returned, raised, requests, pages_evaluated, accepted,
                   throttled, remote_errors, match_vars, failed, seen,
                   github_env, output_file>>

\* search_organization hands its result to search_from_csv; its local
\* variables are gone (page stays, as the history of the remote's last answer,
\* until the caller moves on)
Return(out) ==
    /\ returned' = out.ret
    /\ raised' = out.exc
    /\ pc' = "returned"
    /\ cursor' = NoCursor
    /\ page_count' = 0
    /\ matched_accounts' = <<>>
    /\ k' = 0
    /\ UNCHANGED page

\* search_actors(params) answers with a page
QuerySuccess ==
    /\ pc = "query"
    /\ requests' = requests + 1
    /\ last_throttle' = NoThrottle
    /\ page' \in Pages
    /\ k' = 1
    /\ pc' = "eval"
    /\ UNCHANGED <<now, rl_vars, organizations, i, max_pages, cursor,
                   page_count, matched_accounts, returned, raised, admissions,
                   pages_evaluated, accepted, throttled, remote_errors,
                   match_vars, attempted, failed, seen, github_env,
                   output_file>>

\* a slip: the rate-limit error is raised again like any other error
QueryRateLimitedRaises ==
    /\ pc = "query"
    /\ throttled < MaxThrottle
    /\ requests' = requests + 1
    /\ last_throttle' = NoThrottle
    /\ throttled' = throttled + 1
    /\ failed' = failed \cup {i}
    /\ Return(OnException("AtProtocolError", matched_accounts))
    /\ UNCHANGED <<now, rl_vars, organizations, i, max_pages, admissions,
                   pages_evaluated, accepted, remote_errors, match_vars,
                   attempted, seen, github_env, output_file>>

\* search_actors(params) raises an AtProtocolError naming RateLimitExceeded:
\* sleep until the reset time and one second more, then continue
QueryRateLimited ==
    /\ pc = "query"
    /\ throttled < MaxThrottle
    /\ requests' = requests + 1
    /\ throttled' = throttled + 1
    /\ failed' = failed \cup {i}
    /\ \E reset_time \in ResetHints(now) :
           /\ now' = AfterRetrySleep(reset_time, now)
           /\ last_throttle' =
                  Throttle(now, reset_time, Params(Org.organization_name, cursor))
    /\ UNCHANGED <<rl_vars, pc, organizations, i, max_pages, cursor, page_count,
                   matched_accounts, page, k, returned, raised, admissions,
                   pages_evaluated, accepted, remote_errors, match_vars,
                   attempted, seen, github_env, output_file>>

\* search_actors(params) raises any other error: raise e, caught by the outer
\* handler
QueryError ==
    /\ pc = "query"
    /\ requests' = requests + 1
    /\ last_throttle' = NoThrottle
    /\ remote_errors' = remote_errors + 1
    /\ failed' = failed \cup {i}
    /\ Return(OnException("AtProtocolError", matched_accounts))
    /\ UNCHANGED <<now, rl_vars, organizations, i, max_pages, admissions,
                   pages_evaluated, accepted, throttled, match_vars, attempted,
                   seen, github_env, output_file>>

\* one iteration of  for actor in results.actors
EvalActor ==
    /\ pc = "eval"
    /\ k <= Len(page.actors)
    /\ seen' = Append(seen, page.actors[k])
    /\ LET actor == page.actors[k]
           m == ActorMatches[Org, actor]
           info == AccountInfo(Org.organization_name, Org.type, actor, now)
       IN  IF m.exc # "none"
           THEN /\ Return(OnException(m.exc, matched_accounts))
                /\ UNCHANGED accepted
           ELSE /\ matched_accounts' =
                       IF m.val THEN AppendMatch(matched_accounts, info)
                                ELSE matched_accounts
                /\ accepted' = IF m.val THEN Append(accepted, info) ELSE accepted
                /\ k' = k + 1
                /\ UNCHANGED <<pc, returned, raised, cursor, page_count, page>>
    /\ UNCHANGED <<now, rl_vars, organizations, i, max_pages, admissions,
                   requests, pages_evaluated, throttled, remote_errors,
                   match_vars, attempted, failed, last_throttle, github_env,
                   output_file>>

\* after the for loop: stop without a cursor or at the page bound, otherwise
\* sleep one second and query again
EndPage ==
    /\ pc = "eval"
    /\ k > Len(page.actors)
    /\ pages_evaluated' = pages_evaluated + 1
    /\ IF page.cursor = NoCursor \/ PageBoundReached(page_count + 1, max_pages)
       THEN /\ Return(OnReturn(matched_accounts))
            /\ UNCHANGED now
       ELSE /\ cursor' = page.cursor
            /\ page_count' = page_count + 1
            /\ now' = now + PageDelay
            /\ pc' = "query"
            /\ page' = EmptyPage
            /\ k' = 0
            /\ UNCHANGED <<matched_accounts, returned, raised>>
    /\ UNCHANGED <<rl_vars, organizations, i, max_pages, admissions, requests,
                   accepted, throttled, remote_errors, match_vars, attempted,
                   failed, last_throttle, seen, github_env, output_file>>

\* env_file.write(...) after the block  with open(github_env, 'a') as env_file
\* has closed the file: ValueError, I/O operation on closed file
EnvFileWrite == "ValueError"

\* the exception the try block of search_from_csv raises after the search: with
\* GITHUB_ENV set, env_file.write is reached after the first row of results,
\* or after the NO_MATCH_FOUND row (only whether a write to GITHUB_ENV raised is
\* kept of that file)
WriteException(search_exc, env) ==
    IF search_exc # "none" THEN search_exc
    ELSE IF env THEN EnvFileWrite
    ELSE "none"

\* the row written when there is no result
NoMatchRow(org_name, org_type, clock) ==
    [search_term       |-> org_name,
     organization_type |-> org_type,
     handle            |-> "NO_MATCH_FOUND",
     display_name      |-> <<>>,
     description       |-> <<>>,
     follower_count    |-> 0,
     following_count   |-> 0,
     posts_count       |-> 0,
     search_date       |-> Date(clock)]

\* the row the handler  except Exception as e  writes; str(e) is kept as one
\* symbol, the name of the exception
ErrorRow(org_name, org_type, e, clock) ==
    [search_term       |-> org_name,
     organization_type |-> org_type,
     handle            |-> "ERROR",
     display_name      |-> <<e>>,
     description       |-> <<>>,
     follower_count    |-> 0,
     following_count   |-> 0,
     posts_count       |-> 0,
     search_date       |-> Date(clock)]

\* the rows of the output file when search_from_csv is done with an
\* organization: the handler opens the file again with mode 'w', so the rows
\* written before an exception are lost
OutputRows(org_name, org_type, results, search_exc, env, clock) ==
    IF WriteException(search_exc, env) # "none"
    THEN <<ErrorRow(org_name, org_type, WriteException(search_exc, env), clock)>>
    ELSE IF results # <<>> THEN results
    ELSE <<NoMatchRow(org_name, org_type, clock)>>

\* search_from_csv after the search: the output file is written
WriteResults ==
    /\ pc = "returned"
    /\ output_file' = OutputRows(Org.organization_name, Org.type, returned,
                                 raised, github_env, now)
    /\ pc' = "written"
    /\ UNCHANGED <<now, rl_vars, organizations, i, max_pages, cursor,
                   page_count, matched_accounts, page, k, returned, raised,
                   admissions, requests, pages_evaluated, accepted, throttled,
                   remote_errors, match_vars, attempted, failed, last_throttle,
                   seen, github_env>>

\* a slip: the loop ends after the first organization
NextPositionStops(index, total) == "finished"

\* for i, org in enumerate(organizations, 1): the loop goes on to the next row
\* or ends after the last one
NextPosition(index, total) == IF index + 1 > total THEN "finished" ELSE "idle"

\* search_from_csv after the file is written: time.sleep(10) and the next
\* organization
NextOrganization ==
    /\ pc = "written"
    /\ output_file' = <<>>
    /\ now' = now + OrganizationDelay
    /\ i' = i + 1
    /\ pc' = NextPosition(i, Len(organizations))
    /\ returned' = <<>>
    /\ raised' = "none"
    /\ pages_evaluated' = 0
    /\ accepted' = <<>>
    /\ seen' = <<>>
    /\ throttled' = 0
    /\ remote_errors' = 0
    /\ page' = EmptyPage
    /\ UNCHANGED <<rl_vars, organizations, max_pages, cursor, page_count,
                   matched_accounts, k, admissions, requests, match_vars,
                   attempted, failed, last_throttle, github_env>>

\* the steps of the program itself
Step ==
    \/ CallSearch
    \/ QuerySuccess
    \/ QueryRateLimited
    \/ QueryError
    \/ EvalActor
    \/ EndPage
    \/ WriteResults
    \/ NextOrganization

Next == Tick \/ Step

Spec == Init /\ [][Next]_vars

\* the program is one blocking thread: it always takes its next step
FairSpec == Spec /\ WF_vars(Step)

-----------------------------------------------------------------------------
(* Properties                                                              *)

\* the starts of the wrapped function in the period beginning at start a
StartsInWindow(a) ==
    {b \in 1..Len(invoked) :
        invoked[a] <= invoked[b] /\ invoked[b] < invoked[a] + period}

\* C1: the wrapped function starts at most `calls` times within any window of
\* `period` seconds (it is enough to look at the windows that begin at a start)
C1_AtMostCallsPerWindow ==
    \A a \in 1..Len(invoked) : Cardinality(StartsInWindow(a)) <= calls

\* the recorded timestamps in the trailing period of the clock
RecordedInWindow ==
    {n \in 1..Len(calls_made) : now - calls_made[n] < period}

\* C2: the timestamp log never holds more than `calls` timestamps, so no
\* trailing window of `period` seconds holds more than `calls` of them
C2_LogBounded ==
    /\ Len(calls_made) <= calls
    /\ Cardinality(RecordedInWindow) <= calls

\* C2 witness: the log is full after more calls than the limit, the last of
\* them having slept
C2_Witness ==
    /\ Len(calls_made) = calls
    /\ Len(invoked) > calls
    /\ invoked[Len(invoked)] > calls_made[Len(calls_made)]

\* C3: the requests sent to the remote are never more than the admissions by
\* the rate limiter
C3_RequestsAdmitted == requests <= admissions

\* C4: a search evaluates at most max_pages pages, the page under evaluation
\* included
C4_PageBound ==
    pages_evaluated + (IF pc = "eval" THEN 1 ELSE 0) <= max_pages

\* C4 witness: with a page bound of 1 the search returned after one page
\* although the remote gave a cursor for the next one
C4_Witness ==
    /\ pc = "returned"
    /\ max_pages = 1
    /\ page.cursor # NoCursor
    /\ pages_evaluated = 1
    /\ returned # <<>>

\* C5: a search whose remote raises rate-limit errors (at most MaxThrottle of
\* them) and no other error returns, raises nothing, has evaluated a page and
\* returns exactly the matches it accepted
C5_ThrottleRecovered ==
    /\ (pc = "query") ~> (pc = "returned")
    /\ [](pc = "returned" /\ remote_errors = 0 =>
            /\ raised = "none"
            /\ pages_evaluated >= 1
            /\ returned = accepted)

\* C5 witness: a search returned matches after the remote had throttled it
C5_Witness ==
    /\ pc = "returned"
    /\ throttled >= 1
    /\ remote_errors = 0
    /\ returned # <<>>

\* C6: once the remote has raised an error that is no rate-limit error, the
\* search has returned, with the empty list and no exception
C6_ErrorGivesEmpty ==
    remote_errors > 0 =>
        /\ pc \in {"returned", "written"}
        /\ returned = <<>>
        /\ raised = "none"

\* C6 witness: the error came after matches had been accepted
C6_Witness ==
    /\ pc = "returned"
    /\ remote_errors > 0
    /\ accepted # <<>>

C8_SameSearchDate ==
    pc = "returned" =>
        \A a, b \in 1..Len(returned) :
            returned[a].search_date = returned[b].search_date

\* C9: fuzzy_match with an org_name of no whitespace-delimited token raises
\* nothing and returns false
C9_NoTokensNoMatch ==
    (m_op = "fuzzy_match" /\ Split(m_org) = <<>>) => m_res = Value(FALSE)

\* C10: the match condition accepts "University of Oxford" for the text
\* "oxford university press"
C10_OxfordUniversityPress ==
    (/\ m_op = "matches"
     /\ m_org = StrUniversityOfOxford
     /\ m_text = StrOxfordUniversityPress) => m_res = Value(TRUE)


\* the strings one single-character deletion, insertion or substitution away
OneEdit(s) ==
    {SubSeq(s, 1, n - 1) \o SubSeq(s, n + 1, Len(s)) : n \in 1..Len(s)}
    \cup {SubSeq(s, 1, n) \o <<c>> \o SubSeq(s, n + 1, Len(s)) :
             n \in 0..Len(s), c \in LevAlphabet}
    \cup {[s EXCEPT ![n] = c] : n \in 1..Len(s), c \in LevAlphabet}

\* the least number of edits after which b is among the strings S reached in n
RECURSIVE EditsToReach(_, _, _)
EditsToReach(S, b, n) ==
    IF b \in S THEN n
    ELSE EditsToReach(S \cup UNION {OneEdit(s) : s \in S}, b, n + 1)

\* the minimum number of single-character edits turning a into b
EditDistance(a, b) == EditsToReach({a}, b, 0)

\* C11: levenshtein_distance(a, b) is the minimum number of single-character
\* insertions, deletions and substitutions turning a into b; it is symmetric,
\* 0 for equal strings and the length of a for the empty b
C11_MinimumEdits ==
    m_op = "levenshtein_distance" =>
        /\ m_res = Value(EditDistance(m_org, m_text))
        /\ levenshtein_distance(m_text, m_org) = m_res.val
        /\ (m_org = m_text => m_res.val = 0)
        /\ (m_text = <<>> => m_res.val = Len(m_org))

\* C11 witness: the distance of a string to a longer one (the arguments are
\* swapped) was computed and is 2 or more
C11_Witness ==
    /\ m_op = "levenshtein_distance"
    /\ m_org # <<>>
    /\ Len(m_org) < Len(m_text)
    /\ m_res.val >= 2


\* every word of org_name is one of the whitespace-delimited tokens of the text
EveryWordIsToken(org_name, text) ==
    \A n \in 1..Len(OrgWords(org_name)) :
        OrgWords(org_name)[n] \in Range(Split(Lower(text)))

\* C16: the all-tokens-present test passes exactly when every word of org_name
\* equals a whitespace-delimited token of the candidate text
C16_AllTokensPresent ==
    m_op = "all_words" => (m_res.val <=> EveryWordIsToken(m_org, m_text))

\* org_name has no word other than "of"
OnlyOf(org_name) == Filter(OrgWords(org_name), StrOf) = <<>>

\* C19: for an org_name without a word other than "of" the match condition
\* accepts every candidate and does not call fuzzy_match
C19_OnlyOfAcceptsAll ==
    (m_op = "matches" /\ OnlyOf(m_org)) =>
        /\ m_res = Value(TRUE)
        /\ ~FuzzyReached(m_org, Lower(m_text))

\* C19 witness: the name "of" was accepted for a text that does not hold it
C19_Witness ==
    /\ m_op = "matches"
    /\ m_org = StrOf
    /\ m_text = StrParty
    /\ m_res = Value(TRUE)


\* the timestamps of the log that are younger than one period
Remaining == {calls_made[n] : n \in RecordedInWindow}

\* the oldest of them
OldestRemaining == CHOOSE t \in Remaining : \A u \in Remaining : t <= u

\* C14: a call that finds at least `calls` timestamps younger than one period
\* in the log starts the wrapped function no earlier than the oldest of them
\* plus period
C14_WaitsForOldest ==
    [][(/\ Len(invoked') = Len(invoked) + 1
        /\ Cardinality(RecordedInWindow) >= calls)
       => invoked'[Len(invoked')] >= OldestRemaining + period]_vars

\* C14 witness: the call after `calls` immediate ones started one period after
\* the first, later than it was made
C14_Witness ==
    /\ Len(invoked) = calls + 1
    /\ period > 1
    /\ invoked[calls] < invoked[1] + period
    /\ invoked[calls + 1] = invoked[1] + period
    /\ calls_made[Len(calls_made)] > invoked[1]

\* C18: whenever the admission test holds after pruning, the sleep_time the
\* wrapper computes is strictly positive
C18_SleepTimePositive ==
    LimitReached(Prune(calls_made, now, period), calls) =>
        SleepTime(Prune(calls_made, now, period), now, period) > 0

\* C18 witness: after a call that has slept, a call made now finds the log full
\* and computes the least sleep_time, one second
C18_Witness ==
    /\ Len(invoked) > calls
    /\ LimitReached(Prune(calls_made, now, period), calls)
    /\ SleepTime(Prune(calls_made, now, period), now, period) = 1


\* the rows 1, 2, ..., n in this order
FirstRows(n) == [j \in 1..n |-> j]

C13_ThrottleKeepsProgress ==
    /\ [][throttled' = throttled + 1 =>
             /\ cursor' = cursor
             /\ page_count' = page_count
             /\ matched_accounts' = matched_accounts
             /\ pc' = "query"]_vars
    /\ [](last_throttle.kind # "none" =>
             /\ pc = "query"
             /\ Params(Org.organization_name, cursor) = last_throttle.params)

\* C13 witness: the query for the second page was refused after matches of the
\* first page were collected
C13_Witness ==
    /\ last_throttle.kind # "none"
    /\ last_throttle.params.cursor # NoCursor
    /\ matched_accounts # <<>>
    /\ page_count = 1

\* C17: the query after a rate-limit error is sent no earlier than one second
\* after the reset time of its header, and no earlier than one second after
\* the error
C17_RetryNotBeforeReset ==
    last_throttle.kind # "none" =>
        /\ now >= last_throttle.reset + 1
        /\ now >= last_throttle.at + 1

\* C17 witness: the header named a time after the error and the program is
\* about to query again at that time plus one second
C17_Witness ==
    /\ pc = "query"
    /\ last_throttle.kind # "none"
    /\ last_throttle.reset > last_throttle.at
    /\ now = last_throttle.reset + 1


\* the actors met that the match condition accepts for the current row
AcceptedOfSeen == SelectSeq(seen, LAMBDA actor : ActorMatches[Org, actor].val)

\* org_name, org_type and handle of the accounts of a list
Identity(accounts) ==
    [n \in 1..Len(accounts) |->
        [org_name |-> accounts[n].search_term,
         org_type |-> accounts[n].organization_type,
         handle   |-> accounts[n].handle]]

\* the search ended without an error of the remote or of the match condition
ReturnedNormally ==
    /\ pc = "returned"
    /\ remote_errors = 0
    /\ \A n \in 1..Len(seen) : ActorMatches[Org, seen[n]].exc = "none"

\* C15: a search that returns normally returns the actors the match condition
\* accepts, in the order they were met, none dropped or merged, each with the
\* org_name and org_type of the row and its own handle
C15_ResultIsAcceptedInOrder ==
    ReturnedNormally =>
        Identity(returned) =
            [n \in 1..Len(AcceptedOfSeen) |->
                [org_name |-> Org.organization_name,
                 org_type |-> Org.type,
                 handle   |-> AcceptedOfSeen[n].handle]]

\* C15 witness: two pages were evaluated, an actor of the first page came
\* again on the second after one that was not accepted, and is twice in the
\* result
C15_Witness ==
    /\ ReturnedNormally
    /\ Len(seen) = 4
    /\ Len(returned) = 3
    /\ returned[1].handle = returned[3].handle


\* the output file holds an ERROR row
HoldsErrorRow == \E n \in 1..Len(output_file) : output_file[n].handle = "ERROR"

\* C20: when search_from_csv is done with an organization whose search
\* returned matches, the output file holds the matches in result order, with
\* or without GITHUB_ENV; an ERROR row is there only if the search raised
C20_MatchesWritten ==
    pc = "written" =>
        /\ (returned # <<>> => output_file = returned)
        /\ (HoldsErrorRow => raised # "none")

====
